---- MODULE Spec2Model ----
(***************************************************************************)
(* OSCAL component model (blueprintapi/oscal/component.py), the project    *)
(* control aggregation and the SSP assembly (projects/downloads.py) of     *)
(* atoasap_api, as state machines.                                         *)
(*                                                                         *)
(* Python values are modelled with their type where the code compares      *)
(* values of different types: a str is PyStr(s), a pydantic model is a     *)
(* record carrying py_type.  A raised exception is a record Raise(...), a  *)
(* returned value a record Return(...).                                    *)
(***************************************************************************)
EXTENDS Integers, Sequences, FiniteSets, TLC

VARIABLES
    statements,     \* ImplementedRequirement.statements (None and [] are both <<>>)
    set_parameters, \* ImplementedRequirement.set_parameters (None and [] are both <<>>)
    props,          \* ImplementedRequirement.props (None and [] are both <<>>)
    req_call,       \* the last mutator call on the requirement and its outcome
    component,      \* Component.control_implementations of the component under lookup
    call,           \* the last read operation on `component` and what it returned
    project_version,\* project.catalog_version
    attached,       \* project.components.all(): the attached components, in order
    disabled,       \* per project control: ids of the components whose narrative is disabled
    last_toggle,    \* per project control and component id: the last request that named it
    control_status, \* per project and tracked control: the ProjectControl status
    response,       \* the response to the last request on the project
    catalogs,       \* the stored Catalog rows, by primary key, and the next key
    files,          \* the files of the storage
    components,     \* ComponentDefinition.components (None and [] are both <<>>)
    capabilities    \* ComponentDefinition.capabilities (None and [] are both <<>>)

vars == <<statements, set_parameters, props, req_call, component, call, project_version, attached, disabled, last_toggle, control_status, response, catalogs, files, components, capabilities>>

(***************************************************************************)
(* Bounds and input sets                                                   *)
(***************************************************************************)
MaxStatements == 3
MaxParams == 2
MaxProps == 2
MaxImpls == 2
MaxReqs == 2
MaxAttached == 3
MaxKeyChars == 5
MaxPairChars == 1
MaxFullReqs == 1
MaxDefined == 2
MaxPk == 3

StatementIds == {"ac-2_smt.a", "ac-2_smt.b"}
Descriptions == {"d1", "d2"}
Versions == {"NIST_SP80053R4", "NIST_SP80053R5"}
\* what a caller can pass as catalog_version: a version, or the empty string
QueryVersions == Versions \cup {""}
ControlIds == {"ac-2", "at-1"}
ParamIds == {"ac-2_prm_1", "ac-2_prm_2"}
PropertyNames == {"security_control_type", "provider"}
PropertyValues == {"Inherited", "Hybrid"}

NoCall == [op |-> "none"]

(***************************************************************************)
(* Python values                                                           *)
(***************************************************************************)
PyStr(s) == [py_type |-> "str", value |-> s]

Return(v) == [raised |-> "", value |-> v]

Raise(exc, kind, key) == [raised |-> exc, kind |-> kind, key |-> key]

\* `x in list`: some element equals x.  A str never equals a pydantic model.
PyIn(x, list) == \E i \in DOMAIN list : list[i] = x

\* `not list`: None or empty
PyNot(list) == list = <<>>

(***************************************************************************)
(* Statement, ImplementedRequirement.add_statement                         *)
(***************************************************************************)
Statement(id, d) == [py_type |-> "Statement", statement_id |-> id, description |-> d]

AllStatements == {Statement(id, d) : id \in StatementIds, d \in Descriptions}

\* the requirement's statements after add_statement(statement), or the KeyError
add_statement(stmts, statement) ==
    LET key == PyStr(statement.statement_id)
    IN  IF PyNot(stmts)
        THEN Return(Append(<<>>, statement))
        ELSE IF PyIn(key, stmts)
             THEN Raise("KeyError", "DuplicateKey", statement.statement_id)
             ELSE Return(Append(stmts, statement))

AddStatement(s) ==
    /\ Len(statements) < MaxStatements
    /\ LET r == add_statement(statements, s)
       IN  /\ statements' = IF r.raised = "" THEN r.value ELSE statements
           /\ req_call' = [op |-> "add_statement", arg |-> s, before |-> statements,
                           raised |-> r.raised]
    /\ UNCHANGED <<set_parameters, props>>
    /\ UNCHANGED <<component, call, project_version, attached, disabled, last_toggle, control_status, response, catalogs, files, components, capabilities>>

Parameter(id, v) == [py_type |-> "Parameter", param_id |-> id, values |-> v]

AllParameters == {Parameter(id, "1") : id \in ParamIds}

add_parameter(params, set_parameter) ==
    LET key == PyStr(set_parameter.param_id)
    IN  IF PyNot(params)
        THEN Return(Append(<<>>, set_parameter))
        ELSE IF PyIn(key, params)
             THEN Raise("KeyError", "DuplicateKey", set_parameter.param_id)
             ELSE Return(Append(params, set_parameter))

AddParameter(p) ==
    /\ Len(set_parameters) < MaxParams
    /\ LET r == add_parameter(set_parameters, p)
       IN  /\ set_parameters' = IF r.raised = "" THEN r.value ELSE set_parameters
           /\ req_call' = [op |-> "add_parameter", arg |-> p, before |-> set_parameters,
                           raised |-> r.raised]
    /\ UNCHANGED <<statements, props>>
    /\ UNCHANGED <<component, call, project_version, attached, disabled, last_toggle, control_status, response, catalogs, files, components, capabilities>>

Property(n, v) == [py_type |-> "Property", name |-> n, value |-> v]

AllProperties == {Property(n, v) : n \in PropertyNames, v \in PropertyValues}

add_property(prps, property) ==
    LET key == PyStr(property.name)
    IN  IF PyNot(prps)
        THEN Return(Append(<<>>, property))
        ELSE IF PyIn(key, prps)
             THEN Raise("KeyError", "DuplicateKey", property.name)
             ELSE Return(Append(prps, property))

AddProperty(p) ==
    /\ Len(props) < MaxProps
    /\ LET r == add_property(props, p)
       IN  /\ props' = IF r.raised = "" THEN r.value ELSE props
           /\ req_call' = [op |-> "add_property", arg |-> p, before |-> props,
                           raised |-> r.raised]
    /\ UNCHANGED <<statements, set_parameters>>
    /\ UNCHANGED <<component, call, project_version, attached, disabled, last_toggle, control_status, response, catalogs, files, components, capabilities>>

\* Optional[str]: a str, or None
Some(v) == [is_none |-> FALSE, value |-> v]

NoneValue == [is_none |-> TRUE, value |-> ""]

\* the names a property of a requirement can carry
AccessorPropertyNames == PropertyNames \cup {"responsibility"}

AccessorProperties ==
    {Property(n, v) : n \in AccessorPropertyNames, v \in PropertyValues}

AccessorProps == UNION {[1..n -> AccessorProperties] : n \in 0..MaxProps}

props_filter_last(prps, name) ==
    LET named == {i \in DOMAIN prps : prps[i].name = name}
    IN  IF named = {} THEN NoneValue
        ELSE Some(prps[CHOOSE i \in named : \A j \in named : j <= i].value)

\* ImplementedRequirement._props_filter: None when props is None, else the value
\* of next(filter(lambda prop: prop.name == name, self.props), None)
props_filter(prps, name) ==
    LET RECURSIVE scan(_)
        scan(i) ==
            IF i > Len(prps) THEN NoneValue
            ELSE IF prps[i].name = name THEN Some(prps[i].value)
                 ELSE scan(i + 1)
    IN  IF prps = <<>> THEN NoneValue ELSE scan(1)

responsibility(prps) == props_filter(prps, "security_control_type")

provider(prps) == props_filter(prps, "provider")

Responsibility ==
    /\ req_call' = [op |-> "responsibility", ret |-> responsibility(props)]
    /\ UNCHANGED <<statements, set_parameters, props>>
    /\ UNCHANGED <<component, call, project_version, attached, disabled, last_toggle, control_status, response, catalogs, files, components, capabilities>>

Provider ==
    /\ req_call' = [op |-> "provider", ret |-> provider(props)]
    /\ UNCHANGED <<statements, set_parameters, props>>
    /\ UNCHANGED <<component, call, project_version, attached, disabled, last_toggle, control_status, response, catalogs, files, components, capabilities>>

(***************************************************************************)
(* Component: control_implementations and the read operations              *)
(***************************************************************************)
\* requirement lists as control ids; the narrative of each requirement is
\* made distinct by its owner and position, so that requirements can be told apart
ReqShapes == UNION {[1..n -> ControlIds] : n \in 0..MaxReqs}

ImplShapes == [description : Versions, ids : ReqShapes]

ComponentShapes == UNION {[1..n -> ImplShapes] : n \in 0..MaxImpls}

Narrative(owner, i, j) == <<owner, i, j>>

ImplementedRequirement(c, d) == [control_id |-> c, description |-> d]

ControlImplementations(owner, shape) ==
    [i \in DOMAIN shape |->
        [description |-> shape[i].description,
         implemented_requirements |->
            [j \in DOMAIN shape[i].ids |->
                ImplementedRequirement(shape[i].ids[j], Narrative(owner, i, j))]]]

AllComponents == {ControlImplementations("K", sh) : sh \in ComponentShapes}

get_control_implementation_fallback(impls, catalog_version) ==
    LET RECURSIVE scan(_)
        scan(i) ==
            IF i > Len(impls)
            THEN IF Len(impls) > 0 THEN Return(impls[1])
                 ELSE Raise("KeyError", "ImplementationNotFound", catalog_version)
            ELSE IF impls[i].description = catalog_version
                 THEN Return(impls[i])
                 ELSE scan(i + 1)
    IN  scan(1)

get_control_implementation_uncaught(impls, catalog_version) ==
    LET RECURSIVE scan(_)
        scan(i) ==
            IF i > Len(impls)
            THEN Raise("StopIteration", "StopIteration", catalog_version)
            ELSE IF impls[i].description = catalog_version
                 THEN Return(impls[i])
                 ELSE scan(i + 1)
    IN  scan(1)

get_control_implementation_last(impls, catalog_version) ==
    LET RECURSIVE scan(_)
        scan(i) ==
            IF i < 1
            THEN Raise("KeyError", "ImplementationNotFound", catalog_version)
            ELSE IF impls[i].description = catalog_version
                 THEN Return(impls[i])
                 ELSE scan(i - 1)
    IN  scan(Len(impls))

\* next(filter(lambda imp: imp.description == catalog_version, ...)), else KeyError
get_control_implementation(impls, catalog_version) ==
    LET RECURSIVE scan(_)
        scan(i) ==
            IF i > Len(impls)
            THEN Raise("KeyError", "ImplementationNotFound", catalog_version)
            ELSE IF impls[i].description = catalog_version
                 THEN Return(impls[i])
                 ELSE scan(i + 1)
    IN  scan(1)

\* [item for implementation in ... for item in implementation.implemented_requirements]
all_items(impls) ==
    LET RECURSIVE flat(_)
        flat(i) ==
            IF i > Len(impls) THEN <<>>
            ELSE impls[i].implemented_requirements \o flat(i + 1)
    IN  flat(1)

controls_all_versions(impls, catalog_version) ==
    Return(all_items(impls))

controls_reversed(impls, catalog_version) ==
    LET RECURSIVE flat(_)
        flat(i) ==
            IF i > Len(impls) THEN <<>>
            ELSE flat(i + 1) \o impls[i].implemented_requirements
    IN  IF catalog_version = ""
        THEN Return(flat(1))
        ELSE LET imp == get_control_implementation(impls, catalog_version)
             IN  IF imp.raised = "" THEN Return(imp.value.implemented_requirements)
                 ELSE imp

\* catalog_version None and "" are both falsy: modelled as ""
controls(impls, catalog_version) ==
    IF catalog_version = ""
    THEN Return(all_items(impls))
    ELSE LET imp == get_control_implementation(impls, catalog_version)
         IN  IF imp.raised = "" THEN Return(imp.value.implemented_requirements)
             ELSE imp

first_requirement(reqs, control_id) ==
    LET RECURSIVE scan(_)
        scan(j) ==
            IF j > Len(reqs)
            THEN Raise("KeyError", "RequirementNotFound", control_id)
            ELSE IF reqs[j].control_id = control_id
                 THEN Return(reqs[j])
                 ELSE scan(j + 1)
    IN  scan(1)

get_control_any_version(impls, control_id, catalog_version) ==
    LET imp == get_control_implementation(impls, catalog_version)
    IN  IF imp.raised # "" THEN imp
        ELSE first_requirement(all_items(impls), control_id)

get_control(impls, control_id, catalog_version) ==
    LET imp == get_control_implementation(impls, catalog_version)
    IN  IF imp.raised # "" THEN imp
        ELSE first_requirement(imp.value.implemented_requirements, control_id)

GetControlImplementation(v) ==
    /\ call' = [op |-> "get_control_implementation", catalog_version |-> v,
                control_id |-> "", ret |-> get_control_implementation(component, v)]
    /\ UNCHANGED <<statements, set_parameters, props, req_call, component, project_version, attached, disabled, last_toggle, control_status, response, catalogs, files, components, capabilities>>

\* list({item.control_id for ...}): the distinct ids; the order of the list is
\* that of a set and carries no meaning, so the result is kept as a set
control_ids(impls) ==
    {all_items(impls)[n].control_id : n \in DOMAIN all_items(impls)}

\* list of the Catalog.Version members that tag an implementation; a description
\* that is no version (ValueError) is skipped
catalog_versions(impls) ==
    {impls[i].description : i \in {j \in DOMAIN impls : impls[j].description \in Versions}}

GetControlIds ==
    /\ call' = [op |-> "control_ids", catalog_version |-> "", control_id |-> "",
                ret |-> Return(control_ids(component))]
    /\ UNCHANGED <<statements, set_parameters, props, req_call, component, project_version, attached, disabled, last_toggle, control_status, response, catalogs, files, components, capabilities>>

GetCatalogVersions ==
    /\ call' = [op |-> "catalog_versions", catalog_version |-> "", control_id |-> "",
                ret |-> Return(catalog_versions(component))]
    /\ UNCHANGED <<statements, set_parameters, props, req_call, component, project_version, attached, disabled, last_toggle, control_status, response, catalogs, files, components, capabilities>>

Controls_extending(v) ==
    /\ call' = [op |-> "controls", catalog_version |-> v, control_id |-> "",
                ret |-> controls(component, v)]
    /\ component' =
          IF v = "" /\ Len(component) > 0
          THEN [component EXCEPT ![1].implemented_requirements = all_items(component)]
          ELSE component
    /\ UNCHANGED <<statements, set_parameters, props, req_call, project_version, attached, disabled, last_toggle, control_status, response, catalogs, files, components, capabilities>>

Controls(v) ==
    /\ call' = [op |-> "controls", catalog_version |-> v, control_id |-> "",
                ret |-> controls(component, v)]
    /\ UNCHANGED <<statements, set_parameters, props, req_call, component, project_version, attached, disabled, last_toggle, control_status, response, catalogs, files, components, capabilities>>

GetControl(c, v) ==
    /\ call' = [op |-> "get_control", catalog_version |-> v, control_id |-> c,
                ret |-> get_control(component, c, v)]
    /\ UNCHANGED <<statements, set_parameters, props, req_call, component, project_version, attached, disabled, last_toggle, control_status, response, catalogs, files, components, capabilities>>

(***************************************************************************)
(* ComponentDefinition: add_component and add_capability                   *)
(***************************************************************************)
Uuids == {"u1", "u2"}

DefinitionTitles == {"A", "B"}

Component(uuid, title) == [py_type |-> "Component", uuid |-> uuid, title |-> title]

Capability(uuid, name) == [py_type |-> "Capability", uuid |-> uuid, name |-> name]

DefinitionComponents == {Component(u, t) : u \in Uuids, t \in DefinitionTitles}

DefinitionCapabilities == {Capability(u, t) : u \in Uuids, t \in DefinitionTitles}

\* the definition's components after add_component(component), or the KeyError
add_component(comps, cmp) ==
    LET key == PyStr(cmp.uuid)
    IN  IF PyNot(comps)
        THEN Return(Append(<<>>, cmp))
        ELSE IF PyIn(key, comps)
             THEN Raise("KeyError", "DuplicateKey", cmp.uuid)
             ELSE Return(Append(comps, cmp))

add_capability(caps, capability) ==
    LET key == PyStr(capability.uuid)
    IN  IF PyNot(caps)
        THEN Return(Append(<<>>, capability))
        ELSE IF PyIn(key, caps)
             THEN Raise("KeyError", "DuplicateKey", capability.uuid)
             ELSE Return(Append(caps, capability))

DefinitionAddComponent(c) ==
    /\ Len(components) < MaxDefined
    /\ LET r == add_component(components, c)
       IN  /\ components' = IF r.raised = "" THEN r.value ELSE components
           /\ call' = [op |-> "add_component", arg |-> c, before |-> components,
                       raised |-> r.raised]
    /\ UNCHANGED <<statements, set_parameters, props, req_call, component, capabilities>>
    /\ UNCHANGED <<project_version, attached, disabled, last_toggle, control_status, response, catalogs, files>>

DefinitionAddCapability(c) ==
    /\ Len(capabilities) < MaxDefined
    /\ LET r == add_capability(capabilities, c)
       IN  /\ capabilities' = IF r.raised = "" THEN r.value ELSE capabilities
           /\ call' = [op |-> "add_capability", arg |-> c, before |-> capabilities,
                       raised |-> r.raised]
    /\ UNCHANGED <<statements, set_parameters, props, req_call, component, components>>
    /\ UNCHANGED <<project_version, attached, disabled, last_toggle, control_status, response, catalogs, files>>

(***************************************************************************)
(* Project: catalog, attached components, the project-control endpoint     *)
(***************************************************************************)
R4 == "NIST_SP80053R4"

R5 == "NIST_SP80053R5"

\* the controls of the project's catalog, which are the controls the project tracks
CatalogControls == <<"ac-2", "at-1">>

InCatalog(c) == \E i \in DOMAIN CatalogControls : CatalogControls[i] = c

RequestControlIds == ControlIds \cup {"not-a-control"}

Titles == {"A", "B", "C", "D"}

\* project.title; its private component is titled "<project title> This System"
ProjectTitle == "P"

PrivateTitle == "P This System"

\* Component.type and Component.description of a components.models.Component row
ComponentType(title) ==
    CASE title \in {"A", "C"} -> "software"
      [] title \in {"B", "D"} -> "policy"
      [] OTHER -> "system"

ComponentDescription(title) == <<"description of", title>>

StatusSystem == 1

UnknownId == 12345

ComponentId(title) ==
    CASE title = "A" -> 1
      [] title = "B" -> 2
      [] title = "C" -> 3
      [] title = "D" -> 4
      [] OTHER -> 5

\* component documents an attached component can carry
ProjectShapes ==
    { <<>>,
      <<[description |-> R5, ids |-> <<"ac-2">>]>>,
      <<[description |-> R4, ids |-> <<"ac-2">>],
        [description |-> R5, ids |-> <<"at-1", "not-a-control">>]>>,
      <<[description |-> R4, ids |-> <<"ac-2">>], [description |-> R5, ids |-> <<"ac-2">>]>> }

\* documents of the components of the project under narrative requests: one
\* implements ac-2, the other at-1, for the project's catalog version
NarrShapes ==
    { <<[description |-> R5, ids |-> <<"ac-2">>]>>,
      <<[description |-> R4, ids |-> <<"ac-2">>], [description |-> R5, ids |-> <<"at-1">>]>> }

PrivateShapes == { <<>>, <<[description |-> R5, ids |-> <<"ac-2">>]>> }

\* a row of components.models.Component with its parsed component_json
ProjectComponent(title, status, shape) ==
    [id |-> ComponentId(title), title |-> title, status |-> status,
     type |-> ComponentType(title), description |-> ComponentDescription(title),
     control_implementations |-> ControlImplementations(title, shape)]

IsPrivate(K) == K.status = StatusSystem

AttachedTitles == {attached[i].title : i \in DOMAIN attached}

AttachedIds == {attached[i].id : i \in DOMAIN attached}

NumPublic == Cardinality({i \in DOMAIN attached : ~IsPrivate(attached[i])})

NoneDisabled == [c \in ControlIds |-> {}]

NeverToggled == [c \in ControlIds |-> [k \in {ComponentId(t) : t \in Titles} |-> "none"]]

\* d[key] = value on a dict kept as a sequence of entries in insertion order
DictSet(d, entry) ==
    IF \E i \in DOMAIN d : d[i].title = entry.title
    THEN [i \in DOMAIN d |-> IF d[i].title = entry.title THEN entry ELSE d[i]]
    ELSE Append(d, entry)

\* the aggregation of one control over the attached components: a lookup miss
\* (KeyError) skips the component, any other error propagates
component_data(comps, version, flags, control_id) ==
    LET RECURSIVE walk(_, _)
        walk(i, acc) ==
            IF i > Len(comps) THEN acc
            ELSE LET K == comps[i]
                     r == get_control(K.control_implementations, control_id, version)
                 IN  IF r.raised = ""
                     THEN IF IsPrivate(K)
                          THEN walk(i + 1, [acc EXCEPT !.private =
                                   DictSet(@, [title |-> K.title,
                                               description |-> r.value.description])])
                          ELSE walk(i + 1, [acc EXCEPT !.inherited =
                                   DictSet(@, [title |-> K.title,
                                               description |-> r.value.description,
                                               enabled |-> K.id \notin flags[control_id]])])
                     ELSE IF r.raised = "KeyError"
                          THEN walk(i + 1, acc)
                          ELSE [acc EXCEPT !.status = 500, !.error = r.raised]
    IN  walk(1, [status |-> 200, error |-> "", inherited |-> <<>>, private |-> <<>>])

project_control_view_unchecked(op, comps, version, flags, control_id) ==
    LET d == component_data(comps, version, flags, control_id)
    IN  [op |-> op, control_id |-> control_id, status |-> d.status,
         error |-> d.error, inherited |-> d.inherited, private |-> d.private]

\* the catalog is asked for the control first: ControlNotFound ends the request
project_control_view(op, comps, version, flags, control_id) ==
    IF ~InCatalog(control_id)
    THEN [op |-> op, control_id |-> control_id, status |-> 404,
          error |-> "ControlNotFound", inherited |-> <<>>, private |-> <<>>]
    ELSE LET d == component_data(comps, version, flags, control_id)
         IN  [op |-> op, control_id |-> control_id, status |-> d.status,
              error |-> d.error, inherited |-> d.inherited, private |-> d.private]

\* POST /api/projects/add-component/
AddComponent(title, shape) ==
    /\ NumPublic < MaxAttached
    /\ title \notin AttachedTitles
    /\ attached' = Append(attached, ProjectComponent(title, 2, shape))
    /\ response' = [op |-> "add_component", status |-> 200]
    /\ UNCHANGED <<project_version, disabled, last_toggle>>
    /\ UNCHANGED <<statements, set_parameters, props, req_call, component, call, control_status, catalogs, files, components, capabilities>>

\* the same request for a component row whose title another attached row
\* already carries: titles are not keys of the rows, the primary key is
AddComponentRow(title, shape) ==
    /\ NumPublic < MaxAttached
    /\ attached' = Append(attached,
                          [ProjectComponent(title, 2, shape)
                              EXCEPT !.id = ComponentId(PrivateTitle) + Len(attached)])
    /\ response' = [op |-> "add_component", status |-> 200]
    /\ UNCHANGED <<project_version, disabled, last_toggle>>
    /\ UNCHANGED <<statements, set_parameters, props, req_call, component, call, control_status, catalogs, files, components, capabilities>>

\* GET project-get-control
GetProjectControl(c) ==
    /\ response' = project_control_view("get", attached, project_version, disabled, c)
    /\ UNCHANGED <<project_version, attached, disabled, last_toggle>>
    /\ UNCHANGED <<statements, set_parameters, props, req_call, component, call, control_status, catalogs, files, components, capabilities>>

\* ids of attached components, of a component that is not attached, of no component
RequestIds == {1, 2, 3, UnknownId}

NarrativeRequests ==
    [key : {"disable_narratives", "enable_narratives"},
     ids : {S \in SUBSET RequestIds : Cardinality(S) \in {1, 2}}]

toggle_enable_ignored(flags, control_id, req) ==
    IF req.key = "disable_narratives"
    THEN [flags EXCEPT ![control_id] = @ \cup req.ids]
    ELSE flags

\* the flags of one project control after a request that names known components
toggle(flags, control_id, req) ==
    IF req.key = "disable_narratives"
    THEN [flags EXCEPT ![control_id] = @ \cup req.ids]
    ELSE [flags EXCEPT ![control_id] = @ \ req.ids]

WithRequest(r, req) ==
    [x \in DOMAIN r \cup {"request"} |-> IF x = "request" THEN req ELSE r[x]]

patch_narratives_lenient(flags, comps, version, c, req) ==
    LET known == [req EXCEPT !.ids = @ \cap {comps[i].id : i \in DOMAIN comps}]
        after == toggle(flags, c, known)
    IN  IF ~InCatalog(c)
        THEN [flags |-> flags,
              response |-> project_control_view("patch", comps, version, flags, c)]
        ELSE [flags |-> after,
              response |-> project_control_view("patch", comps, version, after, c)]

\* the flags and the response after a narrative request on control c: an id
\* that is not a component of the project rejects the whole request
patch_narratives(flags, comps, version, c, req) ==
    IF ~InCatalog(c)
    THEN [flags |-> flags,
          response |-> project_control_view("patch", comps, version, flags, c)]
    ELSE IF ~(req.ids \subseteq {comps[i].id : i \in DOMAIN comps})
         THEN [flags |-> flags,
               response |-> [op |-> "patch", control_id |-> c, status |-> 400,
                             error |-> "UnknownComponent",
                             inherited |-> <<>>, private |-> <<>>]]
         ELSE LET after == toggle(flags, c, req)
              IN  [flags |-> after,
                   response |-> project_control_view("patch", comps, version, after, c)]

\* PATCH project-get-control with disable_narratives or enable_narratives
PatchNarratives(c, req) ==
    /\ LET r == patch_narratives(disabled, attached, project_version, c, req)
       IN  /\ disabled' = r.flags
           /\ response' = WithRequest(r.response, req)
           /\ last_toggle' =
                 IF r.response.status = 200
                 THEN [last_toggle EXCEPT ![c] =
                          [k \in DOMAIN @ |-> IF k \in req.ids THEN req.key ELSE @[k]]]
                 ELSE last_toggle
    /\ UNCHANGED <<project_version, attached>>
    /\ UNCHANGED <<statements, set_parameters, props, req_call, component, call, control_status, catalogs, files, components, capabilities>>

(***************************************************************************)
(* OscalSSP: add_components and add_implemented_requirements               *)
(***************************************************************************)
\* uuid4() of the n-th element created
Uuid(n) == <<"uuid", n>>

add_components_own_fields(comps) ==
    [i \in DOMAIN comps |->
        [uuid |-> Uuid(i), title |-> comps[i].title, type |-> comps[i].type,
         description |-> comps[i].description, status |-> "operational"]]

\* the SystemImplementation components, one created per attached component
add_components(comps) ==
    [i \in DOMAIN comps |->
        IF comps[i].status = StatusSystem
        THEN [uuid |-> Uuid(i), title |-> "This System", type |-> "this-system",
              description |-> ProjectTitle, status |-> "operational"]
        ELSE [uuid |-> Uuid(i), title |-> comps[i].title, type |-> comps[i].type,
              description |-> comps[i].description, status |-> "operational"]]

\* self.component_ref[component.title] = cpt.uuid: the last component of a title wins
component_ref(comps, title) ==
    Uuid(CHOOSE i \in DOMAIN comps :
            /\ comps[i].title = title
            /\ \A j \in DOMAIN comps : comps[j].title = title => j <= i)

\* Component.controls: the control ids the component document declares
component_controls(K) ==
    {all_items(K.control_implementations)[n].control_id :
        n \in DOMAIN all_items(K.control_implementations)}

\* ComponentTools.get_control_by_id: the requirements of the document with that id
get_control_by_id(K, control_id) ==
    SelectSeq(all_items(K.control_implementations), LAMBDA r : r.control_id = control_id)

\* ImplementedRequirement.add_by_component
add_by_component(by_components, by_component) == Append(by_components, by_component)

ByComponent_last(comps, K, control_id) ==
    LET ctrl == get_control_by_id(K, control_id)
    IN  [component_uuid |-> component_ref(comps, K.title),
         description |-> ctrl[Len(ctrl)].description]

\* ByComponent(component_uuid=self.component_ref[component.title],
\*             description=ctrl[0].get("description"))
ByComponent(comps, K, control_id) ==
    LET ctrl == get_control_by_id(K, control_id)
    IN  [component_uuid |-> component_ref(comps, K.title),
         description |-> ctrl[1].description]

\* The loops with the list keeping a copy of the requirement as it is when
\* appended, instead of the requirement object itself.
implemented_requirements_copied(comps, ctrls) ==
    LET RECURSIVE inner(_, _, _)
        inner(n, k, st) ==
            IF k > Len(comps) THEN st
            ELSE IF ctrls[n] \in component_controls(comps[k])
                 THEN LET bc == ByComponent(comps, comps[k], ctrls[n])
                          cur == [st.cur EXCEPT !.by_components = add_by_component(@, bc)]
                      IN  inner(n, k + 1, [list |-> Append(st.list, cur), cur |-> cur])
                 ELSE inner(n, k + 1, st)
        RECURSIVE outer(_, _)
        outer(n, list) ==
            IF n > Len(ctrls) THEN list
            ELSE outer(n + 1,
                       inner(n, 1, [list |-> list,
                                    cur |-> [control_id |-> ctrls[n],
                                             by_components |-> <<>>]]).list)
    IN  outer(1, <<>>)

\* The two loops of add_implemented_requirements.  The requirement object of the
\* n-th control is objs[n]; `list` holds references to the objects, one appended
\* each time a component implements the control; the document lists, for each
\* reference, the object as it is at the end.
implemented_requirements(comps, ctrls) ==
    LET RECURSIVE inner(_, _, _)
        inner(n, k, st) ==
            IF k > Len(comps) THEN st
            ELSE IF ctrls[n] \in component_controls(comps[k])
                 THEN LET bc == ByComponent(comps, comps[k], ctrls[n])
                      IN  inner(n, k + 1,
                                [list |-> Append(st.list, n),
                                 objs |-> [st.objs EXCEPT ![n].by_components =
                                              add_by_component(@, bc)]])
                 ELSE inner(n, k + 1, st)
        RECURSIVE outer(_, _)
        outer(n, st) ==
            IF n > Len(ctrls) THEN st
            ELSE outer(n + 1, inner(n, 1, st))
        final == outer(1, [list |-> <<>>,
                           objs |-> [n \in DOMAIN ctrls |->
                                        [control_id |-> ctrls[n],
                                         by_components |-> <<>>]]])
    IN  [i \in DOMAIN final.list |-> final.objs[final.list[i]]]

(***************************************************************************)
(* SSP assembly: roles and users from the stakeholders of `extras`         *)
(*                                                                         *)
(* A str is a sequence of one-character strings here, so that the regular  *)
(* expression, find, split, replace, lower, upper and strip act on it as   *)
(* Python does.                                                            *)
(***************************************************************************)
Chars == {"B", " ", "(", ")"}

Str(n) == UNION {[1..m -> Chars] : m \in 0..n}

\* extras["stakeholders"]: single-key dicts, given by their key (the stakeholder title)
StakeholderInputs ==
    {<<k>> : k \in Str(MaxKeyChars)}
       \cup {<<k1, k2>> : k1, k2 \in Str(MaxPairChars)}

\* re.search(r"\((.*?)\)", key): the leftmost "(" that some ")" follows, and the
\* nearest ")" after it; <<0, 0>> is None
re_search(key) ==
    LET opens == {i \in DOMAIN key :
                     key[i] = "(" /\ \E j \in DOMAIN key : j > i /\ key[j] = ")"}
    IN  IF opens = {} THEN <<0, 0>>
        ELSE LET i == CHOOSE x \in opens : \A y \in opens : x <= y
                 closes == {j \in DOMAIN key : j > i /\ key[j] = ")"}
             IN  <<i, CHOOSE x \in closes : \A y \in closes : x <= y>>

\* short.group(1)
group1(key, m) == SubSeq(key, m[1] + 1, m[2] - 1)

\* key.find(" ("): the 0-based index of the first occurrence, -1 when there is none
find_space_paren(key) ==
    LET at == {i \in DOMAIN key : key[i] = " " /\ i < Len(key) /\ key[i + 1] = "("}
    IN  IF at = {} THEN -1 ELSE (CHOOSE x \in at : \A y \in at : x <= y) - 1

\* key[:n], a negative n counting from the end
slice_to(key, n) ==
    IF n >= 0 THEN SubSeq(key, 1, IF n < Len(key) THEN n ELSE Len(key))
    ELSE SubSeq(key, 1, IF Len(key) + n > 0 THEN Len(key) + n ELSE 0)

\* "".join(word[0] for word in title.split())
initials(title) ==
    LET RECURSIVE scan(_)
        scan(i) ==
            IF i > Len(title) THEN <<>>
            ELSE IF title[i] # " " /\ (i = 1 \/ title[i - 1] = " ")
                 THEN <<title[i]>> \o scan(i + 1)
                 ELSE scan(i + 1)
    IN  scan(1)

lower_char(ch) == CASE ch = "A" -> "a" [] ch = "B" -> "b" [] OTHER -> ch

upper_char(ch) == CASE ch = "a" -> "A" [] ch = "b" -> "B" [] OTHER -> ch

\* title.replace(" ", "-").lower()
hyphen_lower(title) ==
    [i \in DOMAIN title |-> IF title[i] = " " THEN "-" ELSE lower_char(title[i])]

upper(str) == [i \in DOMAIN str |-> upper_char(str[i])]

strip(str) ==
    LET solid == {i \in DOMAIN str : str[i] # " "}
    IN  IF solid = {} THEN <<>>
        ELSE SubSeq(str, CHOOSE x \in solid : \A y \in solid : x <= y,
                         CHOOSE x \in solid : \A y \in solid : x >= y)

\* the title and short name taken from one stakeholder key
title_of(key) ==
    IF re_search(key) # <<0, 0>> THEN slice_to(key, find_space_paren(key)) ELSE key

short_name_of(key) ==
    IF re_search(key) # <<0, 0>> THEN group1(key, re_search(key)) ELSE initials(key)

\* OscalSSP.set_roles: [roles, users] after the loop over the stakeholders
set_roles(stakeholders) ==
    LET RECURSIVE loop(_, _, _, _)
        loop(n, ids, roles, users) ==
            IF n > Len(stakeholders) THEN [roles |-> roles, users |-> users]
            ELSE LET title == title_of(stakeholders[n])
                     short_name == short_name_of(stakeholders[n])
                     role_id == hyphen_lower(title)
                 IN  IF title # <<>> /\ role_id \notin ids
                     THEN loop(n + 1, ids \cup {role_id},
                               Append(roles, [title |-> strip(title),
                                              short_name |-> upper(short_name),
                                              id |-> role_id]),
                               Append(users, [role_ids |-> <<role_id>>,
                                              title |-> title,
                                              short_name |-> short_name]))
                     ELSE loop(n + 1, ids, roles, users)
    IN  loop(1, {}, <<>>, <<>>)

\* GET download-ssp: OscalSSP(project, extras).get_ssp()
DownloadSSP(stakeholders) ==
    /\ response' = [op |-> "download_ssp", status |-> 200,
                    stakeholders |-> stakeholders,
                    roles |-> set_roles(stakeholders).roles,
                    users |-> set_roles(stakeholders).users,
                    components |-> add_components(attached),
                    implemented_requirements |->
                        implemented_requirements(attached, CatalogControls)]
    /\ UNCHANGED <<project_version, attached, disabled, last_toggle>>
    /\ UNCHANGED <<statements, set_parameters, props, req_call, component, call, control_status, catalogs, files, components, capabilities>>

(***************************************************************************)
(* Completion statistics of the project list                               *)
(***************************************************************************)
Projects == {"p1", "p2"}
Statuses == {"not_started", "incomplete", "complete"}

\* no project is under consideration
NoProjects == <<>>

\* the controls of the catalog a project selected; a project tracks each of them
ProjectCatalog(p) ==
    IF p = "p1" THEN CatalogControls ELSE CatalogControls \o <<"au-1">>

Tracked(p) == { ProjectCatalog(p)[i] : i \in DOMAIN ProjectCatalog(p) }

total_controls(p) == Len(ProjectCatalog(p))

completed_controls(status_of, catalog) ==
    LET RECURSIVE count(_)
        count(i) ==
            IF i > Len(catalog) THEN 0
            ELSE (IF status_of[catalog[i]] = "complete" THEN 1 ELSE 0) + count(i + 1)
    IN  count(1)

update_status_every_project(all, p, c, s) ==
    [q \in DOMAIN all |->
        [d \in DOMAIN all[q] |-> IF d = c THEN s ELSE all[q][d]]]

\* the status of one tracked control of one project is written
update_status(all, p, c, s) ==
    [all EXCEPT ![p][c] = s]

\* PATCH project-get-control with a status
UpdateControlStatus(p, c, s) ==
    /\ IF c \in Tracked(p)
       THEN /\ control_status' = update_status(control_status, p, c, s)
            /\ response' = [op |-> "update_status", status |-> 200, project |-> p,
                            control_id |-> c, control_status |-> s]
       ELSE /\ control_status' = control_status
            /\ response' = [op |-> "update_status", status |-> 404, project |-> p,
                            control_id |-> c, error |-> "ControlNotFound"]
    /\ UNCHANGED <<project_version, attached, disabled, last_toggle>>
    /\ UNCHANGED <<statements, set_parameters, props, req_call, component, call, catalogs, files, components, capabilities>>

\* GET project-list
ListProjects ==
    /\ response' =
          [op |-> "list", status |-> 200,
           projects |->
              [p \in DOMAIN control_status |->
                  [total_controls |-> total_controls(p),
                   completed_controls |->
                      completed_controls(control_status[p], ProjectCatalog(p))]]]
    /\ UNCHANGED <<project_version, attached, disabled, last_toggle, control_status>>
    /\ UNCHANGED <<statements, set_parameters, props, req_call, component, call, catalogs, files, components, capabilities>>

(***************************************************************************)
(* Serialization of a Component: field names become wire names, None and   *)
(* the fields marked exclude_if_false are left out.                        *)
(*                                                                         *)
(* An Optional[List[...]] field is [some, items]: None has some = FALSE.   *)
(* A JSON object is the sequence of its members in emission order; a       *)
(* member is [name, kind, str, items].                                     *)
(***************************************************************************)
PyNone == [some |-> FALSE, items |-> <<>>]

PyList(l) == [some |-> TRUE, items |-> l]

JStr(name, s) == [name |-> name, kind |-> "string", str |-> s, items |-> <<>>]

JArr(name, objs) == [name |-> name, kind |-> "array", str |-> "", items |-> objs]

\* Config.fields: the wire name of a field
Alias(cls, field) ==
    CASE cls = "Statement" /\ field = "statement_id" -> "statement-id"
      [] cls = "ImplementedRequirement" /\ field = "control_id" -> "control-id"
      [] cls = "ImplementedRequirement" /\ field = "set_parameters" -> "set-parameters"
      [] cls = "ControlImplementation" /\ field = "implemented_requirements"
            -> "implemented-requirements"
      [] cls = "Component" /\ field = "control_implementations" -> "control-implementations"
      [] OTHER -> field

ExcludeIfFalse_props(cls) ==
    CASE cls = "ImplementedRequirement" -> {"statements", "responsible-roles",
                                            "set-parameters", "props"}
      [] cls = "Component" -> {"control-implementations"}
      [] OTHER -> {}

\* Config.exclude_if_false: wire names
ExcludeIfFalse(cls) ==
    CASE cls = "ImplementedRequirement" -> {"statements", "responsible-roles", "set-parameters"}
      [] cls = "Component" -> {"control-implementations"}
      [] OTHER -> {}

\* the member of an Optional[List] field, or nothing
\* (encoded: the elements of the list, each one as its JSON object)
list_member(cls, field, v, encoded) ==
    IF ~v.some THEN <<>>
    ELSE IF Alias(cls, field) \in ExcludeIfFalse(cls) /\ v.items = <<>> THEN <<>>
    ELSE <<JArr(Alias(cls, field), encoded)>>

property_json(p) == <<JStr("name", p.name), JStr("value", p.value)>>

parameter_json(p) == <<JStr("param-id", p.param_id), JStr("values", p.values)>>

statement_json(st) ==
    <<JStr(Alias("Statement", "statement_id"), st.statement_id),
      JStr("description", st.description)>>

requirement_json(r) ==
    <<JStr(Alias("ImplementedRequirement", "control_id"), r.control_id),
      JStr("description", r.description)>>
    \o list_member("ImplementedRequirement", "props", r.props,
                   [i \in DOMAIN r.props.items |-> property_json(r.props.items[i])])
    \o list_member("ImplementedRequirement", "set_parameters", r.set_parameters,
                   [i \in DOMAIN r.set_parameters.items |->
                       parameter_json(r.set_parameters.items[i])])
    \o list_member("ImplementedRequirement", "statements", r.statements,
                   [i \in DOMAIN r.statements.items |->
                       statement_json(r.statements.items[i])])

implementation_json(imp) ==
    <<JStr("description", imp.description)>>
    \o list_member("ControlImplementation", "implemented_requirements",
                   PyList(imp.implemented_requirements),
                   [i \in DOMAIN imp.implemented_requirements |->
                       requirement_json(imp.implemented_requirements[i])])

\* Component.json(): control_implementations of a component titled "K"
to_json(impls) ==
    <<JStr("type", "software"), JStr("title", "K"), JStr("description", "K")>>
    \o list_member("Component", "control_implementations", PyList(impls),
                   [i \in DOMAIN impls |-> implementation_json(impls[i])])

\* the member of an object with that wire name (or field name), if there is one
Members(obj, cls, field) ==
    SelectSeq(obj, LAMBDA m : m.name \in {Alias(cls, field), field})

str_field(obj, cls, field) == Members(obj, cls, field)[1].str

\* the JSON objects of a list field, or None when the member is absent
list_field(obj, cls, field) ==
    IF Members(obj, cls, field) = <<>> THEN PyNone
    ELSE PyList(Members(obj, cls, field)[1].items)

\* the list with every element parsed: decoded[i] is the parsed i-th object
parsed_list(v, decoded) == IF v.some THEN PyList(decoded) ELSE PyNone

parse_property(obj) ==
    Property(str_field(obj, "Property", "name"), str_field(obj, "Property", "value"))

parse_parameter(obj) ==
    Parameter(str_field(obj, "Parameter", "param-id"), str_field(obj, "Parameter", "values"))

parse_statement(obj) ==
    Statement(str_field(obj, "Statement", "statement_id"),
              str_field(obj, "Statement", "description"))

parse_requirement(obj) ==
    [control_id |-> str_field(obj, "ImplementedRequirement", "control_id"),
     description |-> str_field(obj, "ImplementedRequirement", "description"),
     props |->
        LET v == list_field(obj, "ImplementedRequirement", "props")
        IN  parsed_list(v, [i \in DOMAIN v.items |-> parse_property(v.items[i])]),
     set_parameters |->
        LET v == list_field(obj, "ImplementedRequirement", "set_parameters")
        IN  parsed_list(v, [i \in DOMAIN v.items |-> parse_parameter(v.items[i])]),
     statements |->
        LET v == list_field(obj, "ImplementedRequirement", "statements")
        IN  parsed_list(v, [i \in DOMAIN v.items |-> parse_statement(v.items[i])])]

\* implemented_requirements: List[ImplementedRequirement] = []
parse_implementation(obj) ==
    [description |-> str_field(obj, "ControlImplementation", "description"),
     implemented_requirements |->
        LET v == list_field(obj, "ControlImplementation", "implemented_requirements")
        IN  [i \in DOMAIN v.items |-> parse_requirement(v.items[i])]]

\* Component(**json): control_implementations: List[ControlImplementation] = []
from_json(obj) ==
    LET v == list_field(obj, "Component", "control_implementations")
    IN  [i \in DOMAIN v.items |-> parse_implementation(v.items[i])]

\* the values the optional list fields of a requirement can hold
OptionalLists(elements) == {PyNone, PyList(<<>>)} \cup {PyList(<<e>>) : e \in elements}

FullRequirements ==
    [control_id : {"ac-2"}, description : {"d1"},
     props : OptionalLists({Property("provider", "Hybrid")}),
     set_parameters : OptionalLists({Parameter("ac-2_prm_1", "1")}),
     statements : OptionalLists({Statement("ac-2_smt.a", "d1")})]

FullComponents ==
    {<<>>}
       \cup {<<[description |-> R5, implemented_requirements |-> reqs]>> :
                reqs \in UNION {[1..n -> FullRequirements] : n \in 0..MaxFullReqs}}

Serialize ==
    /\ call' = [op |-> "serialize", json |-> to_json(component)]
    /\ UNCHANGED <<statements, set_parameters, props, req_call, component, project_version, attached, disabled, last_toggle, control_status, response, catalogs, files, components, capabilities>>

Deserialize ==
    /\ call.op = "serialize"
    /\ call' = [op |-> "deserialize", json |-> call.json, value |-> from_json(call.json)]
    /\ UNCHANGED <<statements, set_parameters, props, req_call, component, project_version, attached, disabled, last_toggle, control_status, response, catalogs, files, components, capabilities>>

Reserialize ==
    /\ call.op = "deserialize"
    /\ call' = [op |-> "reserialize", json |-> call.json, value |-> call.value,
                json_again |-> to_json(call.value)]
    /\ UNCHANGED <<statements, set_parameters, props, req_call, component, project_version, attached, disabled, last_toggle, control_status, response, catalogs, files, components, capabilities>>

(***************************************************************************)
(* Catalogs: the stored rows and the load_catalog command                  *)
(***************************************************************************)
\* catalogs.rows maps a primary key to its row; next_pk is the key of the next insert
NoCatalogs == [rows |-> <<>>, next_pk |-> 1]

CatalogRow(name, file) == [name |-> name, file_name |-> file]

StoredNames(cat) == {cat.rows[k].name : k \in DOMAIN cat.rows}

\* Catalog.objects.create(name=..., file_name=...)
insert(cat, row) ==
    [rows |-> [k \in DOMAIN cat.rows \cup {cat.next_pk} |->
                  IF k = cat.next_pk THEN row ELSE cat.rows[k]],
     next_pk |-> cat.next_pk + 1]

\* the catalogs that load_catalog --load-standard-catalogs knows
StandardCatalogs ==
    <<"NIST_SP80053r4_HIGH", "NIST_SP80053r4_LOW", "NIST_SP80053r4_MODERATE",
      "NIST_SP80053r5_HIGH", "NIST_SP80053r5_LOW", "NIST_SP80053r5_MODERATE">>

StandardFile(name) == <<"catalog file", name>>

load_standard_catalogs_unchecked(cat) ==
    LET RECURSIVE load(_, _)
        load(n, acc) ==
            IF n > Len(StandardCatalogs) THEN acc
            ELSE LET name == StandardCatalogs[n]
                 IN  load(n + 1,
                          [catalogs |-> insert(acc.catalogs,
                                               CatalogRow(name, StandardFile(name))),
                           created |-> Append(acc.created, name),
                           skipped |-> acc.skipped])
    IN  load(1, [catalogs |-> cat, created |-> <<>>, skipped |-> <<>>])

\* each standard catalog is created unless a catalog of its name is stored
load_standard_catalogs(cat) ==
    LET RECURSIVE load(_, _)
        load(n, acc) ==
            IF n > Len(StandardCatalogs) THEN acc
            ELSE LET name == StandardCatalogs[n]
                 IN  IF name \in StoredNames(acc.catalogs)
                     THEN load(n + 1, [acc EXCEPT !.skipped = Append(@, name)])
                     ELSE load(n + 1,
                               [catalogs |-> insert(acc.catalogs,
                                                    CatalogRow(name, StandardFile(name))),
                                created |-> Append(acc.created, name),
                                skipped |-> acc.skipped])
    IN  load(1, [catalogs |-> cat, created |-> <<>>, skipped |-> <<>>])

\* call_command("load_catalog", load_standard_catalogs=True)
LoadStandardCatalogs ==
    /\ LET r == load_standard_catalogs(catalogs)
       IN  /\ catalogs' = r.catalogs
           /\ files' = files \cup {StandardFile(r.created[i]) : i \in DOMAIN r.created}
           /\ response' = [op |-> "load_catalog", status |-> "ok",
                           created |-> r.created, skipped |-> r.skipped]
    /\ UNCHANGED <<project_version, attached, disabled, last_toggle, control_status>>
    /\ UNCHANGED <<statements, set_parameters, props, req_call, component, call, components, capabilities>>

\* the standard catalogs of a set of names, stored in the order of the command
Preloaded(names) ==
    LET RECURSIVE fill(_, _)
        fill(n, cat) ==
            IF n > Len(StandardCatalogs) THEN cat
            ELSE IF StandardCatalogs[n] \in names
                 THEN fill(n + 1, insert(cat, CatalogRow(StandardCatalogs[n],
                                                         StandardFile(StandardCatalogs[n]))))
                 ELSE fill(n + 1, cat)
    IN  fill(1, NoCatalogs)

(***************************************************************************)
(* Catalogs: save and delete with the pre_save and post_delete receivers    *)
(*                                                                         *)
(* Names and files given to save are ones the unique constraints of name   *)
(* and file_name accept.                                                   *)
(***************************************************************************)
CatalogNames == {"n1", "n2"}

CatalogFiles == {"f1", "f2", "f3"}

\* instance.pk of an instance that was never saved
NoPk == 0

Instance(pk, name, file) == [pk |-> pk, name |-> name, file_name |-> file]

Stored(cat, pk) == pk \in DOMAIN cat.rows

StoredFiles(cat) == {cat.rows[k].file_name : k \in DOMAIN cat.rows}

\* pre_save receiver: the files after it, or the exception it ends with.
\* Catalog has no attribute `file`, so reading instance.file raises.
auto_delete_file_on_change(cat, fs, instance) ==
    IF instance.pk = NoPk
    THEN [raised |-> "", files |-> fs]
    ELSE IF ~Stored(cat, instance.pk)
         THEN [raised |-> "", files |-> fs]
         ELSE [raised |-> "AttributeError", files |-> fs]

\* post_delete receiver
auto_delete_file_on_delete(fs, instance) == fs \ {instance.file_name}

\* Model.save: the receiver, then the row written (updated when a row of
\* the pk is stored, else inserted) and the file put into the storage
save(cat, fs, instance) ==
    LET sig == auto_delete_file_on_change(cat, fs, instance)
        pk == IF instance.pk = NoPk THEN cat.next_pk ELSE instance.pk
        row == CatalogRow(instance.name, instance.file_name)
    IN  IF sig.raised # ""
        THEN [raised |-> sig.raised, catalogs |-> cat, files |-> sig.files]
        ELSE [raised |-> "",
              catalogs |-> [rows |-> [k \in DOMAIN cat.rows \cup {pk} |->
                                         IF k = pk THEN row ELSE cat.rows[k]],
                            next_pk |-> IF pk >= cat.next_pk THEN pk + 1
                                        ELSE cat.next_pk],
              files |-> sig.files \cup {instance.file_name}]

\* Model.delete: the row removed, then the receiver
delete(cat, fs, pk) ==
    [catalogs |-> [rows |-> [k \in DOMAIN cat.rows \ {pk} |-> cat.rows[k]],
                   next_pk |-> cat.next_pk],
     files |-> auto_delete_file_on_delete(fs, Instance(pk, cat.rows[pk].name,
                                                       cat.rows[pk].file_name))]

Saved(instance) ==
    LET r == save(catalogs, files, instance)
    IN  /\ catalogs' = r.catalogs
        /\ files' = r.files
        /\ response' = [op |-> "save", instance |-> instance, raised |-> r.raised,
                        catalogs_before |-> catalogs, files_before |-> files]
        /\ UNCHANGED <<project_version, attached, disabled, last_toggle, control_status>>
        /\ UNCHANGED <<statements, set_parameters, props, req_call, component, call, components, capabilities>>

\* Catalog(name=..., file_name=...).save() of a new instance
CreateCatalog(name, file) ==
    /\ catalogs.next_pk <= MaxPk
    /\ name \notin StoredNames(catalogs)
    /\ file \notin files
    /\ Saved(Instance(NoPk, name, file))

\* a stored catalog saved again, with the file it has or with another one
UpdateCatalog(pk, file) ==
    /\ Stored(catalogs, pk)
    /\ file = catalogs.rows[pk].file_name \/ file \notin files
    /\ Saved(Instance(pk, catalogs.rows[pk].name, file))

\* an instance that carries a primary key no stored row has
SaveUnstored(pk, name, file) ==
    /\ ~Stored(catalogs, pk)
    /\ name \notin StoredNames(catalogs)
    /\ file \notin files
    /\ Saved(Instance(pk, name, file))

DeleteCatalog(pk) ==
    /\ Stored(catalogs, pk)
    /\ LET r == delete(catalogs, files, pk)
       IN  /\ catalogs' = r.catalogs
           /\ files' = r.files
           /\ response' = [op |-> "delete", instance |-> Instance(pk, catalogs.rows[pk].name,
                                                                  catalogs.rows[pk].file_name),
                           raised |-> "", catalogs_before |-> catalogs,
                           files_before |-> files]
    /\ UNCHANGED <<project_version, attached, disabled, last_toggle, control_status>>
    /\ UNCHANGED <<statements, set_parameters, props, req_call, component, call, components, capabilities>>

(***************************************************************************)
(* Specifications                                                          *)
(***************************************************************************)
\* one project: components are attached, controls are viewed, the SSP is downloaded
InitProject ==
    /\ statements = <<>>
    /\ set_parameters = <<>>
    /\ props = <<>>
    /\ req_call = NoCall
    /\ component = <<>>
    /\ call = NoCall
    /\ project_version \in Versions
    /\ \E sh \in PrivateShapes :
          attached = <<ProjectComponent(PrivateTitle, StatusSystem, sh)>>
    /\ disabled = NoneDisabled
    /\ last_toggle = NeverToggled
    /\ control_status = NoProjects
    /\ response = NoCall
    /\ catalogs = NoCatalogs
    /\ files = {}
    /\ components = <<>>
    /\ capabilities = <<>>

NextProject ==
    \/ \E t \in Titles, sh \in ProjectShapes : AddComponent(t, sh)
    \/ \E c \in RequestControlIds : GetProjectControl(c)
    \/ DownloadSSP(<<>>)

SpecProject == InitProject /\ [][NextProject]_vars

\* a project whose attached component rows may share a title
RowTitles == {"A", "B"}

NextTitles ==
    \/ \E t \in RowTitles, sh \in ProjectShapes : AddComponentRow(t, sh)
    \/ DownloadSSP(<<>>)

SpecTitles == InitProject /\ [][NextTitles]_vars

\* one ComponentDefinition under a sequence of add_component and
\* add_capability calls
InitDefinition ==
    /\ statements = <<>>
    /\ set_parameters = <<>>
    /\ props = <<>>
    /\ req_call = NoCall
    /\ component = <<>>
    /\ call = NoCall
    /\ project_version = R5
    /\ attached = <<>>
    /\ disabled = NoneDisabled
    /\ last_toggle = NeverToggled
    /\ control_status = NoProjects
    /\ response = NoCall
    /\ catalogs = NoCatalogs
    /\ files = {}
    /\ components = <<>>
    /\ capabilities = <<>>

NextDefinition ==
    \/ \E c \in DefinitionComponents : DefinitionAddComponent(c)
    \/ \E c \in DefinitionCapabilities : DefinitionAddCapability(c)

SpecDefinition == InitDefinition /\ [][NextDefinition]_vars

\* the Catalog table and its files under create, update and delete
InitCatalog ==
    /\ statements = <<>>
    /\ set_parameters = <<>>
    /\ props = <<>>
    /\ req_call = NoCall
    /\ component = <<>>
    /\ call = NoCall
    /\ project_version = R5
    /\ attached = <<>>
    /\ disabled = NoneDisabled
    /\ last_toggle = NeverToggled
    /\ control_status = NoProjects
    /\ response = NoCall
    /\ catalogs = NoCatalogs
    /\ files = {}
    /\ components = <<>>
    /\ capabilities = <<>>

NextCatalog ==
    \/ \E name \in CatalogNames, file \in CatalogFiles : CreateCatalog(name, file)
    \/ \E pk \in 1..MaxPk, file \in CatalogFiles : UpdateCatalog(pk, file)
    \/ \E pk \in 1..MaxPk, name \in CatalogNames, file \in CatalogFiles :
          SaveUnstored(pk, name, file)
    \/ \E pk \in 1..MaxPk : DeleteCatalog(pk)

SpecCatalog == InitCatalog /\ [][NextCatalog]_vars

\* one ImplementedRequirement under a sequence of mutator calls
InitReq ==
    /\ statements = <<>>
    /\ set_parameters = <<>>
    /\ props = <<>>
    /\ req_call = NoCall
    /\ component = <<>>
    /\ call = NoCall
    /\ project_version = "NIST_SP80053R5"
    /\ attached = <<>>
    /\ disabled = NoneDisabled
    /\ last_toggle = NeverToggled
    /\ control_status = NoProjects
    /\ response = NoCall
    /\ catalogs = NoCatalogs
    /\ files = {}
    /\ components = <<>>
    /\ capabilities = <<>>

NextReq ==
    \/ \E s \in AllStatements : AddStatement(s)
    \/ \E p \in AllParameters : AddParameter(p)
    \/ \E p \in AllProperties : AddProperty(p)

SpecReq == InitReq /\ [][NextReq]_vars

\* one Component under a sequence of read operations
InitComp ==
    /\ statements = <<>>
    /\ set_parameters = <<>>
    /\ props = <<>>
    /\ req_call = NoCall
    /\ component \in AllComponents
    /\ call = NoCall
    /\ project_version = "NIST_SP80053R5"
    /\ attached = <<>>
    /\ disabled = NoneDisabled
    /\ last_toggle = NeverToggled
    /\ control_status = NoProjects
    /\ response = NoCall
    /\ catalogs = NoCatalogs
    /\ files = {}
    /\ components = <<>>
    /\ capabilities = <<>>

NextComp ==
    \/ \E v \in QueryVersions : GetControlImplementation(v)
    \/ \E v \in QueryVersions : Controls(v)
    \/ \E c \in ControlIds, v \in QueryVersions : GetControl(c, v)
    \/ GetControlIds
    \/ GetCatalogVersions

SpecComp == InitComp /\ [][NextComp]_vars

\* one project with two components attached, under narrative requests
InitNarr ==
    /\ statements = <<>>
    /\ set_parameters = <<>>
    /\ props = <<>>
    /\ req_call = NoCall
    /\ component = <<>>
    /\ call = NoCall
    /\ project_version = R5
    /\ \E s1, s2 \in NarrShapes :
          attached = << ProjectComponent(PrivateTitle, StatusSystem, <<>>),
                        ProjectComponent("A", 2, s1),
                        ProjectComponent("B", 2, s2) >>
    /\ disabled = NoneDisabled
    /\ last_toggle = NeverToggled
    /\ control_status = NoProjects
    /\ response = NoCall
    /\ catalogs = NoCatalogs
    /\ files = {}
    /\ components = <<>>
    /\ capabilities = <<>>

NextNarr ==
    \/ \E c \in RequestControlIds : GetProjectControl(c)
    \/ \E c \in RequestControlIds, req \in NarrativeRequests : PatchNarratives(c, req)

SpecNarr == InitNarr /\ [][NextNarr]_vars

\* two projects: control statuses are updated, the project list is read
InitStatus ==
    /\ statements = <<>>
    /\ set_parameters = <<>>
    /\ props = <<>>
    /\ req_call = NoCall
    /\ component = <<>>
    /\ call = NoCall
    /\ project_version = R5
    /\ attached = <<>>
    /\ disabled = NoneDisabled
    /\ last_toggle = NeverToggled
    /\ control_status = [p \in Projects |-> [c \in Tracked(p) |-> "not_started"]]
    /\ response = NoCall
    /\ catalogs = NoCatalogs
    /\ files = {}
    /\ components = <<>>
    /\ capabilities = <<>>

NextStatus ==
    \/ \E p \in Projects :
          \E c \in RequestControlIds \cup Tracked(p), s \in Statuses :
             UpdateControlStatus(p, c, s)
    \/ ListProjects

SpecStatus == InitStatus /\ [][NextStatus]_vars

\* the load_catalog command, run on a database that holds some standard catalogs
InitLoad ==
    /\ statements = <<>>
    /\ set_parameters = <<>>
    /\ props = <<>>
    /\ req_call = NoCall
    /\ component = <<>>
    /\ call = NoCall
    /\ project_version = R5
    /\ attached = <<>>
    /\ disabled = NoneDisabled
    /\ last_toggle = NeverToggled
    /\ control_status = NoProjects
    /\ response = NoCall
    /\ \E names \in SUBSET {StandardCatalogs[n] : n \in DOMAIN StandardCatalogs} :
          /\ catalogs = Preloaded(names)
          /\ files = {StandardFile(name) : name \in names}
          /\ components = <<>>
          /\ capabilities = <<>>

NextLoad == LoadStandardCatalogs

SpecLoad == InitLoad /\ [][NextLoad]_vars

\* one ImplementedRequirement with its props, under the two accessors
InitProps ==
    /\ statements = <<>>
    /\ set_parameters = <<>>
    /\ props \in AccessorProps
    /\ req_call = NoCall
    /\ component = <<>>
    /\ call = NoCall
    /\ project_version = R5
    /\ attached = <<>>
    /\ disabled = NoneDisabled
    /\ last_toggle = NeverToggled
    /\ control_status = NoProjects
    /\ response = NoCall
    /\ catalogs = NoCatalogs
    /\ files = {}
    /\ components = <<>>
    /\ capabilities = <<>>

NextProps ==
    \/ Responsibility
    \/ Provider

SpecProps == InitProps /\ [][NextProps]_vars

\* one component is serialized, read back and serialized again
InitWire ==
    /\ statements = <<>>
    /\ set_parameters = <<>>
    /\ props = <<>>
    /\ req_call = NoCall
    /\ component \in FullComponents
    /\ call = NoCall
    /\ project_version = R5
    /\ attached = <<>>
    /\ disabled = NoneDisabled
    /\ last_toggle = NeverToggled
    /\ control_status = NoProjects
    /\ response = NoCall
    /\ catalogs = NoCatalogs
    /\ files = {}
    /\ components = <<>>
    /\ capabilities = <<>>

NextWire ==
    \/ Serialize
    \/ Deserialize
    \/ Reserialize

SpecWire == InitWire /\ [][NextWire]_vars

\* the SSP of one project is downloaded with the stakeholders the request gives
InitRoles ==
    /\ statements = <<>>
    /\ set_parameters = <<>>
    /\ props = <<>>
    /\ req_call = NoCall
    /\ component = <<>>
    /\ call = NoCall
    /\ project_version = R5
    /\ attached = <<ProjectComponent(PrivateTitle, StatusSystem, <<>>)>>
    /\ disabled = NoneDisabled
    /\ last_toggle = NeverToggled
    /\ control_status = NoProjects
    /\ response = NoCall
    /\ catalogs = NoCatalogs
    /\ files = {}
    /\ components = <<>>
    /\ capabilities = <<>>

NextRoles ==
    \E st \in StakeholderInputs : DownloadSSP(st)

SpecRoles == InitRoles /\ [][NextRoles]_vars

(***************************************************************************)
(* C1: after add_statement(s1) succeeded, add_statement(s2) with the same  *)
(* statement_id raises KeyError and leaves statements unchanged; so no two *)
(* statements of the requirement share a statement_id.                     *)
(***************************************************************************)
HasStatementId(stmts, id) == \E i \in DOMAIN stmts : stmts[i].statement_id = id

C1_DuplicateStatementRejected ==
    /\ \A i, j \in DOMAIN statements :
          i # j => statements[i].statement_id # statements[j].statement_id
    /\ (req_call.op = "add_statement"
          /\ HasStatementId(req_call.before, req_call.arg.statement_id))
       => (req_call.raised = "KeyError" /\ statements = req_call.before)

(***************************************************************************)
(* C2: get_control_implementation(v) on a component none of whose          *)
(* implementations has description v (a component without implementations  *)
(* included) raises the implementation-not-found KeyError and returns no   *)
(* implementation.                                                         *)
(***************************************************************************)
Tagged(impls, v) == {i \in DOMAIN impls : impls[i].description = v}

Min(S) == CHOOSE x \in S : \A y \in S : x <= y

C2_ImplementationNotFound ==
    (call.op = "get_control_implementation"
        /\ Tagged(component, call.catalog_version) = {})
    => (call.ret.raised = "KeyError" /\ call.ret.kind = "ImplementationNotFound")

C2_Witness ==
    /\ call.op = "get_control_implementation"
    /\ Len(component) > 0
    /\ Tagged(component, call.catalog_version) = {}
    /\ call.ret.raised = "KeyError"

(***************************************************************************)
(* C3: get_control(c, v) returns the first requirement with control_id c   *)
(* of the first implementation tagged v and looks nowhere else: it raises  *)
(* requirement-not-found when that implementation has no such requirement  *)
(* (even if another implementation has one), and implementation-not-found  *)
(* when no implementation is tagged v.                                     *)
(***************************************************************************)
WithControl(reqs, c) == {j \in DOMAIN reqs : reqs[j].control_id = c}

C3_GetControl ==
    call.op = "get_control" =>
        LET T == Tagged(component, call.catalog_version)
        IN  IF T = {}
            THEN call.ret.raised = "KeyError" /\ call.ret.kind = "ImplementationNotFound"
            ELSE LET reqs == component[Min(T)].implemented_requirements
                     R == WithControl(reqs, call.control_id)
                 IN  IF R = {}
                     THEN /\ call.ret.raised = "KeyError"
                          /\ call.ret.kind = "RequirementNotFound"
                     ELSE call.ret = Return(reqs[Min(R)])

\* the requirement is missing from the implementation tagged v although an
\* implementation for another version has it
C3_Witness ==
    /\ call.op = "get_control"
    /\ Tagged(component, call.catalog_version) # {}
    /\ call.ret.raised = "KeyError"
    /\ call.ret.kind = "RequirementNotFound"
    /\ \E i \in DOMAIN component :
          WithControl(component[i].implemented_requirements, call.control_id) # {}

(***************************************************************************)
(* C4: controls() without a catalog version returns the concatenation of   *)
(* the implemented_requirements of implementations 1..N, in implementation *)
(* order and then requirement order, duplicates of a control_id kept: its  *)
(* length is the sum of the N list lengths.                                *)
(***************************************************************************)
RECURSIVE Offset(_, _)
Offset(impls, i) ==
    IF i <= 1 THEN 0
    ELSE Offset(impls, i - 1) + Len(impls[i - 1].implemented_requirements)

C4_ControlsConcatenation ==
    (call.op = "controls" /\ call.catalog_version = "") =>
        /\ call.ret.raised = ""
        /\ Len(call.ret.value) = Offset(component, Len(component) + 1)
        /\ \A i \in DOMAIN component :
              \A j \in DOMAIN component[i].implemented_requirements :
                  call.ret.value[Offset(component, i) + j]
                      = component[i].implemented_requirements[j]

\* two implementations that both hold the same control_id
C4_Witness ==
    /\ call.op = "controls" /\ call.catalog_version = ""
    /\ Len(component) >= 2
    /\ \E c \in ControlIds :
          /\ WithControl(component[1].implemented_requirements, c) # {}
          /\ WithControl(component[2].implemented_requirements, c) # {}
    /\ Len(call.ret.value) >= 3

(***************************************************************************)
(* C5: for a control of the project's catalog, the "inherited" bucket of   *)
(* the aggregated view holds exactly one entry for each attached           *)
(* non-private component that implements the control for the project's     *)
(* catalog version, and nothing else, in attachment order.                 *)
(***************************************************************************)
\* K has an implementation tagged v whose first such holds a requirement for c
Implements(K, c, v) ==
    LET T == Tagged(K.control_implementations, v)
    IN  /\ T # {}
        /\ WithControl(K.control_implementations[Min(T)].implemented_requirements, c) # {}

Inheriting(c) ==
    SelectSeq(attached, LAMBDA K : ~IsPrivate(K) /\ Implements(K, c, project_version))

IsView == response.op \in {"get", "patch"} /\ InCatalog(response.control_id)

C5_InheritedBucket ==
    IsView =>
        LET expected == Inheriting(response.control_id)
        IN  /\ Len(response.inherited) = Len(expected)
            /\ \A i \in DOMAIN expected : response.inherited[i].title = expected[i].title

\* attached {A, B, C}: A and C implement the control, B does not
C5_Witness ==
    /\ IsView
    /\ \E a, b, c \in DOMAIN attached :
          /\ a < b /\ b < c
          /\ ~IsPrivate(attached[a]) /\ ~IsPrivate(attached[b]) /\ ~IsPrivate(attached[c])
          /\ Implements(attached[a], response.control_id, project_version)
          /\ ~Implements(attached[b], response.control_id, project_version)
          /\ Implements(attached[c], response.control_id, project_version)
    /\ Len(response.inherited) = 2

(***************************************************************************)
(* C6: the aggregation of a control of the project's catalog never fails   *)
(* because of an attached component: a component whose get_control raises  *)
(* a lookup KeyError (no implementation for the project's version, only    *)
(* one for another version, or no requirement for the control) is skipped, *)
(* and the view still carries the narrative of every component that        *)
(* implements the control.                                                 *)
(***************************************************************************)
NarrativeOf(K, c, v) ==
    LET reqs == K.control_implementations[Min(Tagged(K.control_implementations, v))]
                    .implemented_requirements
    IN  reqs[Min(WithControl(reqs, c))].description

C6_MissesAreSkipped ==
    IsView =>
        /\ response.status = 200
        /\ \A i \in DOMAIN attached :
              LET K == attached[i]
                  bucket == IF IsPrivate(K) THEN response.private ELSE response.inherited
              IN  IF Implements(K, response.control_id, project_version)
                  THEN \E e \in DOMAIN bucket :
                          /\ bucket[e].title = K.title
                          /\ bucket[e].description
                                = NarrativeOf(K, response.control_id, project_version)
                  ELSE \A e \in DOMAIN bucket : bucket[e].title # K.title

\* one component without implementations, one that has the control only for
\* another catalog version, and one that implements it
C6_Witness ==
    /\ IsView
    /\ response.status = 200
    /\ \E i \in DOMAIN attached : attached[i].control_implementations = <<>>
    /\ \E i \in DOMAIN attached :
          /\ Tagged(attached[i].control_implementations, project_version) = {}
          /\ \E n \in DOMAIN attached[i].control_implementations :
                WithControl(attached[i].control_implementations[n].implemented_requirements,
                            response.control_id) # {}
    /\ Len(response.inherited) >= 1

(***************************************************************************)
(* C7: the assembled SSP holds exactly one ImplementedRequirement for      *)
(* every control the project tracks: none is missing and no control_id     *)
(* occurs twice, whether 0, 1 or several attached components implement     *)
(* the control.                                                            *)
(***************************************************************************)
IsSSP == response.op = "download_ssp"

EntriesFor(c) ==
    {i \in DOMAIN response.implemented_requirements :
        response.implemented_requirements[i].control_id = c}

C7_OneRequirementPerControl ==
    IsSSP =>
        \A n \in DOMAIN CatalogControls : Cardinality(EntriesFor(CatalogControls[n])) = 1

(***************************************************************************)
(* C8: in the assembled SSP the ImplementedRequirement of a tracked        *)
(* control carries as many ByComponent entries as there are attached       *)
(* components implementing the control (2 attached components of which 1   *)
(* implements the control give exactly 1 entry).                           *)
(***************************************************************************)
\* some implementation of K's document holds a requirement for c
Declares(K, c) ==
    \E n \in DOMAIN K.control_implementations :
        WithControl(K.control_implementations[n].implemented_requirements, c) # {}

Declaring(c) == SelectSeq(attached, LAMBDA K : Declares(K, c))

C8_ByComponentCount ==
    IsSSP =>
        /\ \A i \in DOMAIN response.implemented_requirements :
              Len(response.implemented_requirements[i].by_components)
                  = Len(Declaring(response.implemented_requirements[i].control_id))
        /\ \A n \in DOMAIN CatalogControls :
              Len(Declaring(CatalogControls[n])) > 0 => EntriesFor(CatalogControls[n]) # {}

C8_Witness ==
    /\ IsSSP
    /\ Len(attached) = 2
    /\ Len(Declaring("ac-2")) = 1
    /\ \E i \in EntriesFor("ac-2") :
          Len(response.implemented_requirements[i].by_components) = 1

(***************************************************************************)
(* C9: the ByComponent entry emitted for control c and component K carries *)
(* the description of K's ImplementedRequirement for c, unchanged, and     *)
(* never the narrative of another component or of another control.         *)
(***************************************************************************)
\* the narrative of the first requirement for c in K's document
FirstNarrative(K, c) ==
    LET impls == K.control_implementations
        n == Min({m \in DOMAIN impls : WithControl(impls[m].implemented_requirements, c) # {}})
        reqs == impls[n].implemented_requirements
    IN  reqs[Min(WithControl(reqs, c))].description

IndexOfTitle(t) == CHOOSE k \in DOMAIN attached : attached[k].title = t

C9_NarrativeCopied ==
    IsSSP =>
        \A i \in DOMAIN response.implemented_requirements :
            LET ir == response.implemented_requirements[i]
                from == Declaring(ir.control_id)
            IN  \A j \in DOMAIN ir.by_components :
                    /\ j <= Len(from)
                    /\ ir.by_components[j].component_uuid
                          = response.components[IndexOfTitle(from[j].title)].uuid
                    /\ ir.by_components[j].description = FirstNarrative(from[j], ir.control_id)
                    /\ ir.by_components[j].description[1] = from[j].title

\* two components implement the control, one of them for both catalog versions
C9_Witness ==
    /\ IsSSP
    /\ \E i \in DOMAIN response.implemented_requirements :
          LET ir == response.implemented_requirements[i]
          IN  /\ Len(ir.by_components) >= 2
              /\ ir.by_components[1].description # ir.by_components[2].description
              /\ \E k \in DOMAIN attached :
                    Cardinality({m \in DOMAIN attached[k].control_implementations :
                        WithControl(attached[k].control_implementations[m]
                                        .implemented_requirements, ir.control_id) # {}}) = 2

(***************************************************************************)
(* C10: the narrative of an attached component K that implements the       *)
(* project control is enabled unless disabled: after a request listing K   *)
(* in disable_narratives the view reports enabled = false, after a later   *)
(* one listing K in enable_narratives enabled = true; the flag always      *)
(* equals the effect of the last request that named K, whatever requests   *)
(* named other components.                                                 *)
(***************************************************************************)
C10_EnabledFollowsLastRequest ==
    (IsView /\ response.status = 200) =>
        \A k \in DOMAIN attached :
            LET K == attached[k]
            IN  (~IsPrivate(K) /\ Implements(K, response.control_id, project_version)) =>
                    \E e \in DOMAIN response.inherited :
                        /\ response.inherited[e].title = K.title
                        /\ response.inherited[e].enabled
                              = (last_toggle[response.control_id][K.id]
                                    # "disable_narratives")

\* K was disabled and is enabled again while another component stays disabled
C10_Witness ==
    /\ response.op = "patch" /\ response.status = 200
    /\ Len(response.inherited) = 2
    /\ \E e, f \in DOMAIN response.inherited :
          /\ response.inherited[e].enabled
          /\ ~response.inherited[f].enabled
          /\ \E k \in DOMAIN attached :
                /\ attached[k].title = response.inherited[e].title
                /\ last_toggle[response.control_id][attached[k].id] = "enable_narratives"
                /\ attached[k].id \notin disabled[response.control_id]

(***************************************************************************)
(* C11: a request to enable or disable a narrative that lists a component  *)
(* id not attached to the project is rejected with UnknownComponent (HTTP  *)
(* 400), and the rejected request changes no enable/disable flag.          *)
(***************************************************************************)
C11_UnknownComponentRejected ==
    [][(/\ response'.op = "patch"
        /\ InCatalog(response'.control_id)
        /\ ~(response'.request.ids \subseteq AttachedIds))
       => (/\ response'.status = 400
           /\ response'.error = "UnknownComponent"
           /\ disabled' = disabled)]_vars

\* a rejected request that names an attached component next to an unknown id,
\* on a control where that component's narrative is disabled
C11_Witness ==
    /\ response.op = "patch"
    /\ response.status = 400
    /\ UnknownId \in response.request.ids
    /\ response.request.key = "enable_narratives"
    /\ response.request.ids \cap disabled[response.control_id] # {}

(***************************************************************************)
(* C12: the aggregated view of a control_id that is not in the project's   *)
(* catalog fails with ControlNotFound (404) before any component is        *)
(* consulted, whether or not an attached component declares a requirement  *)
(* with that control_id.                                                   *)
(***************************************************************************)
C12_ControlNotFound ==
    (response.op \in {"get", "patch"} /\ ~InCatalog(response.control_id)) =>
        /\ response.status = 404
        /\ response.error = "ControlNotFound"
        /\ response.inherited = <<>>
        /\ response.private = <<>>

\* an attached component implements the unknown control for the project's version
C12_Witness ==
    /\ response.op = "get"
    /\ response.status = 404
    /\ \E k \in DOMAIN attached :
          /\ ~IsPrivate(attached[k])
          /\ Implements(attached[k], response.control_id, project_version)

(***************************************************************************)
(* C13: in the project list, total_controls is the number of controls of   *)
(* the project's catalog and completed_controls the number of the          *)
(* project's tracked controls whose status is complete, so that            *)
(* 0 <= completed_controls <= total_controls; marking one control of one   *)
(* project complete raises that project's completed_controls by exactly    *)
(* one and leaves the counts of every other project unchanged.             *)
(***************************************************************************)
NumComplete(all, p) ==
    Cardinality({c \in Tracked(p) : all[p][c] = "complete"})

C13_CompletionCounts ==
    [][/\ response'.op = "list" =>
             \A p \in Projects :
                LET stats == response'.projects[p]
                IN  /\ stats.total_controls = Cardinality(Tracked(p))
                    /\ stats.completed_controls = NumComplete(control_status', p)
                    /\ 0 <= stats.completed_controls
                    /\ stats.completed_controls <= stats.total_controls
       /\ (/\ response'.op = "update_status"
           /\ response'.status = 200
           /\ response'.control_status = "complete"
           /\ control_status[response'.project][response'.control_id] # "complete") =>
             \A p \in Projects :
                NumComplete(control_status', p) =
                   NumComplete(control_status, p)
                      + (IF p = response'.project THEN 1 ELSE 0)]_vars

\* the list is read after one project completed a control that the other also tracks
C13_Witness ==
    /\ response.op = "list"
    /\ response.projects["p1"].completed_controls = 1
    /\ response.projects["p2"].completed_controls = 0
    /\ response.projects["p1"].total_controls # response.projects["p2"].total_controls

(***************************************************************************)
(* C14: add_parameter with a param_id already among set_parameters, and    *)
(* add_property with a name already among props, raise KeyError and leave  *)
(* the list unchanged; so param_ids are pairwise distinct within           *)
(* set_parameters and names are pairwise distinct within props.            *)
(***************************************************************************)
HasParamId(params, id) == \E i \in DOMAIN params : params[i].param_id = id

HasName(prps, n) == \E i \in DOMAIN prps : prps[i].name = n

C14_DuplicateParameterPropertyRejected ==
    /\ \A i, j \in DOMAIN set_parameters :
          i # j => set_parameters[i].param_id # set_parameters[j].param_id
    /\ \A i, j \in DOMAIN props : i # j => props[i].name # props[j].name
    /\ (req_call.op = "add_parameter"
          /\ HasParamId(req_call.before, req_call.arg.param_id))
       => (req_call.raised = "KeyError" /\ set_parameters = req_call.before)
    /\ (req_call.op = "add_property"
          /\ HasName(req_call.before, req_call.arg.name))
       => (req_call.raised = "KeyError" /\ props = req_call.before)

(***************************************************************************)
(* C15: within one ControlImplementation, control_id is unique among its   *)
(* implemented_requirements in every reachable state (a requirement whose  *)
(* control_id is already present is never added).                          *)
(***************************************************************************)
C15_UniqueControlIdPerImplementation ==
    \A i \in DOMAIN component :
       LET reqs == component[i].implemented_requirements
       IN  \A j, k \in DOMAIN reqs : j # k => reqs[j].control_id # reqs[k].control_id

(***************************************************************************)
(* C16: controls(v) returns exactly the implemented_requirements of the    *)
(* implementation tagged v, nothing of any other implementation, and       *)
(* raises the implementation-not-found KeyError when no implementation is  *)
(* tagged v.                                                               *)
(* As claimed, for every version string the caller can supply:             *)
(***************************************************************************)
ControlsOfVersion ==
    IF Tagged(component, call.catalog_version) # {}
    THEN /\ call.ret.raised = ""
         /\ call.ret.value =
               component[Min(Tagged(component, call.catalog_version))].implemented_requirements
    ELSE /\ call.ret.raised = "KeyError"
         /\ call.ret.kind = "ImplementationNotFound"

C16_ControlsEveryVersionString ==
    call.op = "controls" => ControlsOfVersion

\* C16 as amended: for every version string other than the empty one
C16_ControlsOfVersion ==
    (call.op = "controls" /\ call.catalog_version # "") => ControlsOfVersion

\* the second of two differently tagged, non-empty implementations is asked for
C16_Witness ==
    /\ call.op = "controls"
    /\ Len(component) = 2
    /\ component[1].implemented_requirements # <<>>
    /\ component[2].implemented_requirements # <<>>
    /\ Tagged(component, call.catalog_version) = {2}
    /\ call.ret.raised = ""

(***************************************************************************)
(* C17: when several implementations of a component carry the same catalog *)
(* version v, get_control_implementation(v) returns the first of them in   *)
(* control_implementations order, and get_control(c, v) looks for c in     *)
(* that first one only: a requirement for c held only by a later duplicate *)
(* is reported as not found.                                               *)
(***************************************************************************)
\* i is the first implementation tagged v and k a later one with the same tag
Duplicated(impls, v, i, k) ==
    /\ i < k
    /\ impls[i].description = v
    /\ impls[k].description = v
    /\ \A h \in 1..(i - 1) : impls[h].description # v

C17_FirstDuplicateWins ==
    \A i, k \in DOMAIN component :
       (/\ call.op \in {"get_control_implementation", "get_control"}
        /\ Duplicated(component, call.catalog_version, i, k)) =>
          /\ call.op = "get_control_implementation" =>
                (call.ret.raised = "" /\ call.ret.value = component[i])
          /\ call.op = "get_control" =>
                IF \E j \in DOMAIN component[i].implemented_requirements :
                      component[i].implemented_requirements[j].control_id = call.control_id
                THEN /\ call.ret.raised = ""
                     /\ \E j \in DOMAIN component[i].implemented_requirements :
                           call.ret.value = component[i].implemented_requirements[j]
                     /\ call.ret.value.control_id = call.control_id
                ELSE /\ call.ret.raised = "KeyError"
                     /\ call.ret.kind = "RequirementNotFound"

\* only the later duplicate holds the requirement that get_control was asked for
C17_Witness ==
    /\ call.op = "get_control"
    /\ Len(component) = 2
    /\ Duplicated(component, call.catalog_version, 1, 2)
    /\ WithControl(component[1].implemented_requirements, call.control_id) = {}
    /\ WithControl(component[2].implemented_requirements, call.control_id) # {}
    /\ call.ret.raised = "KeyError"

(***************************************************************************)
(* C18: SSP assembly builds exactly one SystemImplementation component per *)
(* attached component, in attachment order: the private system component   *)
(* (status = 1) becomes the component of type "this-system" titled         *)
(* "This System" with the project title as description, every other one    *)
(* keeps its own title, type and description.                              *)
(***************************************************************************)
C18_OneComponentPerAttached ==
    IsSSP =>
        /\ Len(response.components) = Len(attached)
        /\ \A i \in DOMAIN attached :
              LET cpt == response.components[i]
              IN  IF attached[i].status = 1
                  THEN /\ cpt.type = "this-system"
                       /\ cpt.title = "This System"
                       /\ cpt.description = ProjectTitle
                  ELSE /\ cpt.title = attached[i].title
                       /\ cpt.type = attached[i].type
                       /\ cpt.description = attached[i].description

\* the private component and two components of different types are attached
C18_Witness ==
    /\ IsSSP
    /\ Len(response.components) = 3
    /\ response.components[1].type = "this-system"
    /\ response.components[2].type # response.components[3].type
    /\ attached[1].title # "This System"

(***************************************************************************)
(* C19: every role of the SSP comes from a stakeholder title: its id is    *)
(* the title lowercased with spaces replaced by hyphens; when the          *)
(* stakeholder title contains a parenthesized abbreviation, the short name *)
(* is the text inside the parentheses and the role title is the text       *)
(* before the parenthesis, otherwise the short name is made of the first   *)
(* letter of each whitespace-separated word of the title.                  *)
(***************************************************************************)
\* the positions of the parentheses of the first parenthesized abbreviation
Abbreviation(key) ==
    LET P == {p \in (DOMAIN key) \X (DOMAIN key) :
                 /\ p[1] < p[2]
                 /\ key[p[1]] = "("
                 /\ key[p[2]] = ")"
                 /\ \A h \in (p[1] + 1)..(p[2] - 1) : key[h] # ")"}
    IN  IF P = {} THEN <<>>
        ELSE CHOOSE p \in P : \A q \in P : p[1] <= q[1]

C19_RolesFromStakeholders ==
    IsSSP =>
       \A n \in DOMAIN response.roles :
          \E s \in DOMAIN response.stakeholders :
             LET key == response.stakeholders[s]
                 role == response.roles[n]
                 user == response.users[n]
                 abbr == Abbreviation(key)
             IN  /\ role.id = hyphen_lower(user.title)
                 /\ user.role_ids = <<role.id>>
                 /\ IF abbr # <<>>
                    THEN /\ user.short_name = SubSeq(key, abbr[1] + 1, abbr[2] - 1)
                         /\ role.title = strip(SubSeq(key, 1, abbr[1] - 1))
                    ELSE /\ user.short_name = initials(key)
                         /\ role.title = strip(key)

(***************************************************************************)
(* C21: for every Component, deserializing its serialized form yields a    *)
(* value equal to the original, and serializing that value again yields    *)
(* the same JSON.                                                          *)
(* As claimed:                                                             *)
(***************************************************************************)
C21_RoundTripEqual ==
    call.op = "reserialize" =>
        /\ call.value = component
        /\ call.json_again = call.json

\* an empty list in a field marked exclude_if_false reads back as None
AsRead(v) == IF v.items = <<>> THEN PyNone ELSE v

Omitting(impls) ==
    [i \in DOMAIN impls |->
        [description |-> impls[i].description,
         implemented_requirements |->
            [j \in DOMAIN impls[i].implemented_requirements |->
                LET r == impls[i].implemented_requirements[j]
                IN  [control_id |-> r.control_id, description |-> r.description,
                     props |-> r.props,
                     set_parameters |-> AsRead(r.set_parameters),
                     statements |-> AsRead(r.statements)]]]]

\* C21 as amended: the value read back equals the original up to the empty
\* lists of the fields marked exclude_if_false (statements, set-parameters,
\* responsible-roles), which read back as None; serializing it again yields
\* the same JSON.
C21_RoundTrip ==
    call.op = "reserialize" =>
        /\ call.value = Omitting(component)
        /\ call.json_again = call.json

\* an empty props list survives, an empty statements list does not
C21_Witness ==
    /\ call.op = "reserialize"
    /\ Len(component) = 1
    /\ Len(component[1].implemented_requirements) = 1
    /\ component[1].implemented_requirements[1].props = PyList(<<>>)
    /\ component[1].implemented_requirements[1].statements = PyList(<<>>)
    /\ component[1].implemented_requirements[1].set_parameters.items # <<>>
    /\ call.value # component

(***************************************************************************)
(* C22: responsibility and provider each return the value of the first     *)
(* property in props carrying the accessor's property name, and None when  *)
(* props is absent or holds no property of that name.                      *)
(* As claimed, the names being `responsibility` and `provider`:            *)
(***************************************************************************)
Named(prps, name) == {i \in DOMAIN prps : prps[i].name = name}

FirstValue(prps, name) ==
    IF Named(prps, name) = {} THEN NoneValue
    ELSE Some(prps[Min(Named(prps, name))].value)

ReadOps ==
    {"get_control_implementation", "controls", "get_control", "control_ids",
     "catalog_versions"}

C23_ReadsArePure ==
    [][call'.op \in ReadOps =>
          /\ component' = component
          /\ (call.op = "controls" /\ call.catalog_version = ""
              /\ call'.op = "controls" /\ call'.catalog_version = "")
                => call'.ret = call.ret
          /\ call'.op = "control_ids" =>
                \A i \in DOMAIN component :
                   \A j \in DOMAIN component[i].implemented_requirements :
                      component[i].implemented_requirements[j].control_id
                         \in call'.ret.value]_vars

\* a read that failed with a lookup error on a component holding requirements
C23_Witness ==
    /\ call.op = "get_control"
    /\ call.ret.raised = "KeyError"
    /\ Len(component) = 2
    /\ \A i \in DOMAIN component : component[i].implemented_requirements # <<>>

(***************************************************************************)
(* C24: loading the standard catalogs is idempotent: a run skips the       *)
(* catalogs that exist, so after any run the stored catalogs are the six   *)
(* standard ones, none twice, without error, and a further run changes     *)
(* nothing.                                                                *)
(***************************************************************************)
C24_LoadIdempotent ==
    [][response'.op = "load_catalog" =>
          /\ response'.status = "ok"
          /\ StoredNames(catalogs') = {StandardCatalogs[n] : n \in DOMAIN StandardCatalogs}
          /\ Cardinality(DOMAIN catalogs'.rows) = Len(StandardCatalogs)
          /\ response.op = "load_catalog" =>
                (catalogs' = catalogs /\ files' = files /\ response'.created = <<>>)]_vars

\* a second run that found all six catalogs and skipped them
C24_Witness ==
    /\ response.op = "load_catalog"
    /\ response.created = <<>>
    /\ Len(response.skipped) = Len(StandardCatalogs)
    /\ Cardinality(DOMAIN catalogs.rows) = Len(StandardCatalogs)

(***************************************************************************)
(* C25: in the SSP every ByComponent entry carries the uuid of the SSP     *)
(* component built for the very attached component whose narrative it      *)
(* holds, and that uuid belongs to exactly one SSP component; this holds   *)
(* for two attached components of the same title and for the private one.  *)
(***************************************************************************)
\* positions in `attached` of the components that declare control c
DeclaringAt(c) == {k \in DOMAIN attached : Declares(attached[k], c)}

\* the position of the j-th of them, in the order the loop visits them
DeclaringIndex(c, j) ==
    CHOOSE k \in DeclaringAt(c) : Cardinality({m \in DeclaringAt(c) : m <= k}) = j

C25_ByComponentOwnUuid ==
    IsSSP =>
        \A i \in DOMAIN response.implemented_requirements :
            LET ir == response.implemented_requirements[i]
            IN  \A j \in DOMAIN ir.by_components :
                    /\ j <= Cardinality(DeclaringAt(ir.control_id))
                    /\ ir.by_components[j].component_uuid
                          = response.components[DeclaringIndex(ir.control_id, j)].uuid
                    /\ Cardinality({n \in DOMAIN response.components :
                                       response.components[n].uuid
                                           = ir.by_components[j].component_uuid}) = 1

(***************************************************************************)
(* C26: add_component with a uuid already among components, and            *)
(* add_capability with a uuid already among capabilities, raise KeyError   *)
(* and leave the list unchanged; a successful call appends its argument at *)
(* the end; so uuids are pairwise distinct within components and within    *)
(* capabilities.                                                           *)
(***************************************************************************)
HasUuid(list, u) == \E i \in DOMAIN list : list[i].uuid = u

C26_DuplicateUuidRejected ==
    /\ \A i, j \in DOMAIN components : i # j => components[i].uuid # components[j].uuid
    /\ \A i, j \in DOMAIN capabilities :
          i # j => capabilities[i].uuid # capabilities[j].uuid
    /\ call.op = "add_component" =>
          IF HasUuid(call.before, call.arg.uuid)
          THEN call.raised = "KeyError" /\ components = call.before
          ELSE call.raised = "" /\ components = Append(call.before, call.arg)
    /\ call.op = "add_capability" =>
          IF HasUuid(call.before, call.arg.uuid)
          THEN call.raised = "KeyError" /\ capabilities = call.before
          ELSE call.raised = "" /\ capabilities = Append(call.before, call.arg)

(***************************************************************************)
(* C27: a stored catalog saved with a file that differs from its stored    *)
(* file has the old file deleted and is stored with the new one; a save    *)
(* with the same file, without primary key or without stored row deletes   *)
(* no file; a deleted catalog's file is deleted; so the files of the       *)
(* storage are exactly the files of the stored catalogs.                   *)
(***************************************************************************)
C27_FileLifecycle ==
    /\ response.op = "save" =>
          LET inst == response.instance
              was == response.catalogs_before
          IN  IF inst.pk # NoPk /\ Stored(was, inst.pk)
                 /\ was.rows[inst.pk].file_name # inst.file_name
              THEN /\ was.rows[inst.pk].file_name \notin files
                   /\ catalogs.rows[inst.pk].file_name = inst.file_name
              ELSE response.files_before \subseteq files
    /\ response.op = "delete" => response.instance.file_name \notin files
    /\ response.op \in {"save", "delete"} => files = StoredFiles(catalogs)

====
